---- MODULE Spec2Model ----
(***************************************************************************)
(* Model of lib/goose/dbconf.go: NewDBConf (configuration resolution) and  *)
(* OpenDBFromDBConf (connection bootstrap with provisioning of a missing   *)
(* database).  Strings are sequences of one-character strings, so that the *)
(* regular expression, the environment expansion and the URL rewrite are   *)
(* computed character by character.                                        *)
(***************************************************************************)
EXTENDS Integers, Sequences, FiniteSets, TLC

VARIABLES file, environ, args, resolved, pc, db, err, dbm, deferred, handles, log, ret,
          server

vars == <<file, environ, args, resolved, pc, db, err, dbm, deferred, handles, log, ret,
          server>>

\* ------------------------------------------------------------------------
\* Bounds of the model
\* ------------------------------------------------------------------------

\* an open value of the configuration file is made of at most MaxPieces pieces
MaxPieces == 3

\* the number of goroutines that call OpenDBFromDBConf at the same time
NumCallers == 2

\* ------------------------------------------------------------------------
\* String literals
\* ------------------------------------------------------------------------

Postgres == <<"p", "o", "s", "t", "g", "r", "e", "s">>
MySql == <<"m", "y", "s", "q", "l">>
PqImport == <<"g", "i", "t", "h", "u", "b", ".", "c", "o", "m", "/", "l", "i", "b", "/", "p", "q">>
MyImport == <<"m", "y">>
NoSuch == <<"n", "o", "n", "e">>
DbnameKey == <<"d", "b", "n", "a", "m", "e", "=">>
HostKey == <<"h", "o", "s", "t", "=">>
DbnamePostgres == <<"d", "b", "n", "a", "m", "e", "=", "p", "o", "s", "t", "g", "r", "e", "s">>
PostgresScheme == <<"p", "o", "s", "t", "g", "r", "e", "s", ":", "/", "/">>
PostgresqlScheme == <<"p", "o", "s", "t", "g", "r", "e", "s", "q", "l", ":", "/", "/">>
CreateDatabase == <<"C", "R", "E", "A", "T", "E", " ", "D", "A", "T", "A", "B", "A", "S", "E", " ">>
SetSearchPath == <<"S", "E", "T", " ", "s", "e", "a", "r", "c", "h", "_", "p", "a", "t", "h", " ", "T", "O", " ">>
TenantA == <<"t", "e", "n", "a", "n", "t", "_", "a">>
VarV == <<"V">>

NameChars == {"a", "b", "c", "d", "e", "f", "g", "h", "i", "j", "k", "l", "m",
              "n", "o", "p", "q", "r", "s", "t", "u", "v", "w", "x", "y", "z",
              "A", "B", "C", "D", "E", "F", "G", "H", "I", "J", "K", "L", "M",
              "N", "O", "P", "Q", "R", "S", "T", "U", "V", "W", "X", "Y", "Z",
              "0", "1", "2", "3", "4", "5", "6", "7", "8", "9", "_"}
SpecialVarChars == {"*", "#", "$", "@", "!", "?", "-",
                    "0", "1", "2", "3", "4", "5", "6", "7", "8", "9"}

Min(S) == CHOOSE x \in S : \A y \in S : x <= y
Tail0(s, i) == SubSeq(s, i, Len(s))
HasPrefix(s, p) == Len(p) <= Len(s) /\ SubSeq(s, 1, Len(p)) = p

\* ------------------------------------------------------------------------
\* regexp "dbname=([^ ]+)"
\* ------------------------------------------------------------------------


\* the pattern with an optional value, "dbname=([^ ]*)"
MatchAt_EmptyValue(s, i) ==
    /\ i + Len(DbnameKey) - 1 <= Len(s)
    /\ SubSeq(s, i, i + Len(DbnameKey) - 1) = DbnameKey

\* the pattern matches at position i: the literal key, then at least one
\* character that is not a space
MatchAt(s, i) ==
    /\ i + Len(DbnameKey) <= Len(s)
    /\ SubSeq(s, i, i + Len(DbnameKey) - 1) = DbnameKey
    /\ s[i + Len(DbnameKey)] # " "

\* last position of the (greedy) match that starts at i
MatchEnd(s, i) ==
    Min({k \in (i + Len(DbnameKey))..Len(s) : s[k] = " "} \cup {Len(s) + 1}) - 1

\* regex.FindStringSubmatch: <<>> (nil) when nothing matches, otherwise
\* <<whole match, group 1>> of the leftmost match
FindStringSubmatch(s) ==
    LET starts == {i \in 1..Len(s) : MatchAt(s, i)}
    IN IF starts = {} THEN <<>>
       ELSE LET i == Min(starts)
            IN <<SubSeq(s, i, MatchEnd(s, i)),
                 SubSeq(s, i + Len(DbnameKey), MatchEnd(s, i))>>

RECURSIVE ReplaceFrom(_, _, _)
ReplaceFrom(s, i, repl) ==
    IF i > Len(s) THEN <<>>
    ELSE IF MatchAt(s, i) THEN repl \o ReplaceFrom(s, MatchEnd(s, i) + 1, repl)
    ELSE <<s[i]>> \o ReplaceFrom(s, i + 1, repl)

\* a replacement of the leftmost match only
ReplaceFirstLiteralString(s, repl) ==
    LET starts == {i \in 1..Len(s) : MatchAt(s, i)}
    IN IF starts = {} THEN s
       ELSE SubSeq(s, 1, Min(starts) - 1) \o repl \o Tail0(s, MatchEnd(s, Min(starts)) + 1)

\* regex.ReplaceAllLiteralString: every non-overlapping match, left to right
ReplaceAllLiteralString(s, repl) == ReplaceFrom(s, 1, repl)

\* ------------------------------------------------------------------------
\* os.ExpandEnv
\* ------------------------------------------------------------------------

Getenv(env, name) == IF name \in DOMAIN env THEN env[name] ELSE <<>>

\* os.getShellName on s (the text after a '$'): the name and the number of
\* characters it consumes
getShellName(s) ==
    IF s[1] = "{"
    THEN IF Len(s) > 2 /\ s[2] \in SpecialVarChars /\ s[3] = "}"
         THEN [name |-> <<s[2]>>, w |-> 3]
         ELSE LET closes == {i \in 2..Len(s) : s[i] = "}"}
              IN IF closes = {} THEN [name |-> <<>>, w |-> 1]
                 ELSE IF Min(closes) = 2 THEN [name |-> <<>>, w |-> 2]
                 ELSE [name |-> SubSeq(s, 2, Min(closes) - 1), w |-> Min(closes)]
    ELSE IF s[1] \in SpecialVarChars THEN [name |-> <<s[1]>>, w |-> 1]
    ELSE LET stops == {i \in 1..Len(s) : s[i] \notin NameChars} \cup {Len(s) + 1}
         IN [name |-> SubSeq(s, 1, Min(stops) - 1), w |-> Min(stops) - 1]

RECURSIVE ExpandFrom(_, _, _)
ExpandFrom(env, s, j) ==
    IF j > Len(s) THEN <<>>
    ELSE IF s[j] = "$" /\ j < Len(s)
    THEN LET n == getShellName(Tail0(s, j + 1))
             out == IF n.name = <<>> /\ n.w > 0 THEN <<>>
                    ELSE IF n.name = <<>> THEN <<"$">>
                    ELSE Getenv(env, n.name)
         IN out \o ExpandFrom(env, s, j + 1 + n.w)
    ELSE <<s[j]>> \o ExpandFrom(env, s, j + 1)

ExpandEnv(env, s) == ExpandFrom(env, s, 1)

\* ------------------------------------------------------------------------
\* pq.ParseURL, for URLs of the form scheme://host/dbname
\* ------------------------------------------------------------------------

\* [ok, dsn]: the key=value pairs with a non-empty value, sorted and joined
\* by one space; an error for any other scheme
ParseURL(s) ==
    LET scheme == IF HasPrefix(s, PostgresScheme) THEN PostgresScheme
                  ELSE IF HasPrefix(s, PostgresqlScheme) THEN PostgresqlScheme
                  ELSE <<>>
        rest == Tail0(s, Len(scheme) + 1)
        slashes == {i \in 1..Len(rest) : rest[i] = "/"}
        host == IF slashes = {} THEN rest ELSE SubSeq(rest, 1, Min(slashes) - 1)
        name == IF slashes = {} THEN <<>> ELSE Tail0(rest, Min(slashes) + 1)
        kvDb == IF name = <<>> THEN <<>> ELSE DbnameKey \o name
        kvHost == IF host = <<>> THEN <<>> ELSE HostKey \o host
    IN IF scheme = <<>> \/ (\E i \in 1..Len(rest) : rest[i] = " ")
       THEN [ok |-> FALSE, dsn |-> <<>>]
       ELSE [ok |-> TRUE,
             dsn |-> IF kvDb # <<>> /\ kvHost # <<>> THEN kvDb \o <<" ">> \o kvHost
                     ELSE kvDb \o kvHost]

\* ------------------------------------------------------------------------
\* The configuration file, the process environment and the call arguments
\* ------------------------------------------------------------------------

Absent == [set |-> FALSE, val |-> <<>>]
Given(v) == [set |-> TRUE, val |-> v]

Pieces == {DbnameKey, DbnameKey \o <<"a">>, <<" ">>, <<"$", "{", "V", "}">>}

RECURSIVE Concat(_)
Concat(ps) == IF ps = <<>> THEN <<>> ELSE Head(ps) \o Concat(Tail(ps))

\* connection URLs: of the Postgres family (one with a host and a database, one
\* with neither) and of another scheme
UrlValues ==
    {PostgresScheme \o <<"h", "/", "a">>, PostgresScheme,
     MySql \o <<":", "/", "/", "h", "/", "a">>}

OpenValues ==
    {Concat(ps) : ps \in UNION {[1..n -> Pieces] : n \in 0..MaxPieces}} \cup UrlValues

DriverValues == {Postgres, MySql, <<"$", "{", "V", "}">>}
ImportValues == {<<>>, MyImport}
DialectValues == {Postgres, NoSuch}

Opt(S) == {Absent} \cup {Given(v) : v \in S}

\* one environment's section of dbconf.yml
Sections ==
    [driver : Opt(DriverValues), open : Opt(OpenValues),
     import : Opt(ImportValues), dialect : Opt(DialectValues)]

NoSections == [e \in {} |-> Absent]

\* dbconf.yml: unreadable, or a mapping from environment names to sections
Files ==
    {[readable |-> FALSE, envs |-> NoSections], [readable |-> TRUE, envs |-> NoSections]}
    \cup {[readable |-> TRUE, envs |-> [e \in {"development"} |-> s]] : s \in Sections}

Environs == {[n \in {} |-> <<>>], [n \in {VarV} |-> <<"b">>]}

Args == [p : {"db"}, env : {"development", "production"}, pgschema : {<<>>, TenantA}]

\* yaml File.Get("<env>.<key>"): [ok, val]
Get(f, env, key) ==
    IF env \in DOMAIN f.envs /\ f.envs[env][key].set
    THEN [ok |-> TRUE, val |-> f.envs[env][key].val]
    ELSE [ok |-> FALSE, val |-> <<>>]

\* ------------------------------------------------------------------------
\* DBDriver
\* ------------------------------------------------------------------------

NilDialect == "nil"

newDBDriver(name, open) ==
    IF name = Postgres
    THEN [Name |-> name, OpenStr |-> open, Import |-> PqImport, Dialect |-> "PostgresDialect"]
    ELSE [Name |-> name, OpenStr |-> open, Import |-> <<>>, Dialect |-> NilDialect]

dialectByName(d) == IF d = Postgres THEN "PostgresDialect" ELSE NilDialect


\* a validity check that forgets the dialect
IsValid_ImportOnly(drv) == Len(drv.Import) > 0

IsValid(drv) == Len(drv.Import) > 0 /\ drv.Dialect # NilDialect

\* ------------------------------------------------------------------------
\* NewDBConf
\* ------------------------------------------------------------------------

NoDriver == [Name |-> <<>>, OpenStr |-> <<>>, Import |-> <<>>, Dialect |-> NilDialect]
NoConf == [ok |-> FALSE, MigrationsDir |-> <<>>, Env |-> "", Driver |-> NoDriver, PgSchema |-> <<>>]

Failure(e) == [conf |-> NoConf, err |-> e]

\* a rewrite that does not look at the driver name
NormalizeOpen_AnyDriver(drv, open) ==
    IF ParseURL(open).ok /\ ParseURL(open).dsn # <<>> THEN ParseURL(open).dsn ELSE open

\* the open value after expansion and the rewrite of Postgres URLs
NormalizeOpen(drv, open) ==
    IF drv = Postgres /\ ParseURL(open).ok /\ ParseURL(open).dsn # <<>>
    THEN ParseURL(open).dsn
    ELSE open

\* overrides that forget the import of the file
OverrideDriver_NoImport(d, f, env) ==
    LET dialect == Get(f, env, "dialect")
    IN IF dialect.ok THEN [d EXCEPT !.Dialect = dialectByName(dialect.val)] ELSE d

\* the driver with the import and dialect overrides of the file applied
OverrideDriver(d, f, env) ==
    LET imprt == Get(f, env, "import")
        dialect == Get(f, env, "dialect")
        d1 == IF imprt.ok THEN [d EXCEPT !.Import = imprt.val] ELSE d
    IN IF dialect.ok THEN [d1 EXCEPT !.Dialect = dialectByName(dialect.val)] ELSE d1

\* result of the validation that ends NewDBConf
Validate(d, a) ==
    IF ~IsValid(d) THEN Failure("Invalid DBConf")
    ELSE [conf |-> [ok |-> TRUE, MigrationsDir |-> <<a.p, "migrations">>, Env |-> a.env,
                    Driver |-> d, PgSchema |-> a.pgschema],
          err |-> "nil"]

\* a resolution that takes a missing open key for an empty open string
NewDBConf_OpenOptional(f, envir, a) ==
    IF ~f.readable THEN Failure("ReadFile")
    ELSE IF ~Get(f, a.env, "driver").ok THEN Failure("no driver")
    ELSE LET drv == ExpandEnv(envir, Get(f, a.env, "driver").val)
             open == NormalizeOpen(drv, ExpandEnv(envir, Get(f, a.env, "open").val))
         IN Validate(OverrideDriver(newDBDriver(drv, open), f, a.env), a)

\* NewDBConf(p, env, pgschema): [conf, err]
NewDBConf(f, envir, a) ==
    IF ~f.readable THEN Failure("ReadFile")
    ELSE IF ~Get(f, a.env, "driver").ok THEN Failure("no driver")
    ELSE IF ~Get(f, a.env, "open").ok THEN Failure("no open")
    ELSE LET drv == ExpandEnv(envir, Get(f, a.env, "driver").val)
             open == NormalizeOpen(drv, ExpandEnv(envir, Get(f, a.env, "open").val))
         IN Validate(OverrideDriver(newDBDriver(drv, open), f, a.env), a)

\* ------------------------------------------------------------------------
\* OpenDBFromDBConf, one action per external operation
\* ------------------------------------------------------------------------

\* the Configuration handed to OpenDBFromDBConf
conf == resolved.conf

NilDB == 0

\* outcomes of db.Ping(): no error, a *pq.Error with code 3D000, a *pq.Error
\* with another code, an error of another type
PingResults == {"nil", "pq: 3D000", "pq: 28P01", "dial error"}

IsPqError(e) == e \in {"pq: 3D000", "pq: 28P01"}
\* a classification that takes every *pq.Error for a missing database
IsMissingDatabase_AnyPq(e) == e \in {"pq: 3D000", "pq: 28P01"}

IsMissingDatabase(e) == IsPqError(e) /\ e = "pq: 3D000"

NotReturned == [kind |-> "none", db |-> NilDB, err |-> "nil"]
Returns(d, e) == [kind |-> "return", db |-> d, err |-> e]
Panics == [kind |-> "panic", db |-> NilDB, err |-> "nil pointer dereference"]

\* one external call: the source line that makes it, the operation, the handle
\* it is made on (or returns), its argument and its result
Event(line, op, h, arg, res) == [line |-> line, op |-> op, h |-> h, arg |-> arg, res |-> res]


\* leaving without running the deferred calls
Leave_NoDeferred == "Done"

\* the deferred calls run after the result is set and before the caller resumes
Leave == IF deferred # <<>> THEN "Deferred" ELSE "Done"


\* the search path applied whatever the driver
WantsSchema_AnyDriver == resolved.conf.PgSchema # <<>>

\* line 144: whether the search path statement is to be executed
WantsSchema == conf.Driver.Name = Postgres /\ conf.PgSchema # <<>>

SchemaPc == IF WantsSchema THEN "SchemaStep" ELSE "Return"


\* a ping that is tried once more after an error of another type
AfterPing_Retry(e) ==
    IF e = "dial error" /\ Len(log) < 2 THEN "Opened"
    ELSE IF e = "pq: 3D000" THEN "Provisioning"
    ELSE IF resolved.conf.Driver.Name = Postgres /\ resolved.conf.PgSchema # <<>>
    THEN "SchemaStep" ELSE "Return"

\* where control goes after the type switch on the ping's error (lines 120-121)
AfterPing(e) == IF IsMissingDatabase(e) THEN "Provisioning" ELSE SchemaPc

dbname == FindStringSubmatch(conf.Driver.OpenStr)[2]

\* the master connection opened on the original open string
masterConnection_Unchanged == resolved.conf.Driver.OpenStr

masterConnection == ReplaceAllLiteralString(conf.Driver.OpenStr, DbnamePostgres)

\* line 124: m != nil && len(m) == 2
NameFound == LET m == FindStringSubmatch(conf.Driver.OpenStr) IN m # <<>> /\ Len(m) = 2

Init ==
    /\ file \in Files
    /\ environ \in Environs
    /\ args \in Args
    /\ resolved = Failure("nil")
    /\ pc = "Resolve"
    /\ db = NilDB
    /\ err = "nil"
    /\ dbm = NilDB
    /\ deferred = <<>>
    /\ handles = <<>>
    /\ log = <<>>
    /\ ret = NotReturned
    /\ server = {}

\* the caller resolves the configuration and, when that succeeds, opens it
Resolve ==
    /\ pc = "Resolve"
    /\ resolved' = NewDBConf(file, environ, args)
    /\ pc' = IF resolved'.conf.ok THEN "Unopened" ELSE "ResolveFailed"
    /\ UNCHANGED <<file, environ, args, server, db, err, dbm, deferred, handles, log, ret>>

\* lines 115-118: sql.Open(conf.Driver.Name, conf.Driver.OpenStr)
SqlOpen ==
    /\ pc = "Unopened"
    /\ \E ok \in BOOLEAN :
         IF ok
         THEN /\ handles' = Append(handles, [dsn |-> conf.Driver.OpenStr, closed |-> FALSE])
              /\ db' = Len(handles) + 1
              /\ log' = Append(log, Event(115, "Open", Len(handles) + 1, conf.Driver.OpenStr, "nil"))
              /\ err' = "nil"
              /\ pc' = "Opened"
              /\ ret' = ret
         ELSE /\ log' = Append(log, Event(115, "Open", NilDB, conf.Driver.OpenStr, "open error"))
              /\ err' = "open error"
              /\ ret' = Returns(NilDB, "open error")
              /\ pc' = Leave
              /\ UNCHANGED <<handles, db>>
    /\ UNCHANGED <<file, environ, args, server, resolved, dbm, deferred>>

\* lines 119-121: err = db.Ping() and the switch on its type and code
Ping ==
    /\ pc = "Opened"
    /\ \E res \in PingResults :
         /\ err' = res
         /\ log' = Append(log, Event(119, "Ping", db, <<>>, res))
         /\ pc' = AfterPing(res)
    /\ UNCHANGED <<file, environ, args, server, resolved, db, dbm, deferred, handles, ret>>

\* lines 122-125 and 137-139: the notice, then the search for the database name
Provisioning ==
    /\ pc = "Provisioning"
    /\ log' = Append(log, Event(122, "Println", NilDB, <<>>, "nil"))
    /\ IF NameFound
       THEN pc' = "MasterOpen" /\ ret' = ret
       ELSE /\ ret' = Returns(NilDB, "Can't create database with unknown name")
            /\ pc' = Leave
    /\ UNCHANGED <<file, environ, args, server, resolved, db, err, dbm, deferred, handles>>

\* lines 126-131: sql.Open of the master connection and defer dbm.Close()
MasterOpen ==
    /\ pc = "MasterOpen"
    /\ \E ok \in BOOLEAN :
         IF ok
         THEN /\ handles' = Append(handles, [dsn |-> masterConnection, closed |-> FALSE])
              /\ dbm' = Len(handles) + 1
              /\ deferred' = <<Len(handles) + 1>>
              /\ log' = Append(log, Event(127, "Open", Len(handles) + 1, masterConnection, "nil"))
              /\ pc' = "CreateDB"
              /\ ret' = ret
         ELSE /\ log' = Append(log, Event(127, "Open", NilDB, masterConnection, "open error"))
              /\ ret' = Returns(NilDB, "open error")
              /\ pc' = Leave
              /\ UNCHANGED <<handles, dbm, deferred>>
    /\ UNCHANGED <<file, environ, args, server, resolved, db, err>>

\* a CREATE DATABASE step that closes the master connection as soon as the
\* statement has been executed
CreateDB_ClosesMaster ==
    /\ pc = "CreateDB"
    /\ \E ok \in BOOLEAN :
         /\ log' = Append(log, Event(132, "Exec", dbm, CreateDatabase \o dbname,
                                     IF ok THEN "nil" ELSE "exec error"))
         /\ server' = IF ok THEN server \cup {dbname} ELSE server
         /\ IF ok
            THEN pc' = "Reopen" /\ ret' = ret
            ELSE ret' = Returns(NilDB, "exec error") /\ pc' = "Done"
    /\ handles' = [handles EXCEPT ![dbm].closed = TRUE]
    /\ deferred' = <<>>
    /\ UNCHANGED <<file, environ, args, resolved, db, err, dbm>>

\* lines 132-134: dbm.Exec("CREATE DATABASE <dbname>")
CreateDB ==
    /\ pc = "CreateDB"
    /\ \E ok \in BOOLEAN :
         /\ log' = Append(log, Event(132, "Exec", dbm, CreateDatabase \o dbname,
                                     IF ok THEN "nil" ELSE "exec error"))
         /\ server' = IF ok THEN server \cup {dbname} ELSE server
         /\ IF ok
            THEN pc' = "Reopen" /\ ret' = ret
            ELSE ret' = Returns(NilDB, "exec error") /\ pc' = Leave
    /\ UNCHANGED <<file, environ, args, resolved, db, err, dbm, deferred, handles>>

\* line 136: db, err = sql.Open(...); the error goes to the err of the inner
\* block and is not read again
Reopen ==
    /\ pc = "Reopen"
    /\ \E ok \in BOOLEAN :
         IF ok
         THEN /\ handles' = Append(handles, [dsn |-> conf.Driver.OpenStr, closed |-> FALSE])
              /\ db' = Len(handles) + 1
              /\ log' = Append(log, Event(136, "Open", Len(handles) + 1, conf.Driver.OpenStr, "nil"))
         ELSE /\ db' = NilDB
              /\ log' = Append(log, Event(136, "Open", NilDB, conf.Driver.OpenStr, "open error"))
              /\ handles' = handles
    /\ pc' = SchemaPc
    /\ UNCHANGED <<file, environ, args, server, resolved, err, dbm, deferred, ret>>

\* lines 144-148: db.Exec("SET search_path TO <PgSchema>"); a nil db panics
SchemaStep ==
    /\ pc = "SchemaStep"
    /\ IF db = NilDB
       THEN ret' = Panics /\ pc' = Leave /\ log' = log
       ELSE \E ok \in BOOLEAN :
              /\ log' = Append(log, Event(145, "Exec", db, SetSearchPath \o conf.PgSchema,
                                          IF ok THEN "nil" ELSE "exec error"))
              /\ IF ok
                 THEN pc' = "Return" /\ ret' = ret
                 ELSE ret' = Returns(NilDB, "exec error") /\ pc' = Leave
    /\ UNCHANGED <<file, environ, args, server, resolved, db, err, dbm, deferred, handles>>

\* line 150: return db, nil
Return ==
    /\ pc = "Return"
    /\ ret' = Returns(db, "nil")
    /\ pc' = Leave
    /\ UNCHANGED <<file, environ, args, server, resolved, db, err, dbm, deferred, handles, log>>

\* line 131: the deferred dbm.Close() runs when the function leaves
RunDeferred ==
    /\ pc = "Deferred"
    /\ handles' = [handles EXCEPT ![Head(deferred)].closed = TRUE]
    /\ log' = Append(log, Event(131, "Close", Head(deferred), <<>>, "nil"))
    /\ deferred' = Tail(deferred)
    /\ pc' = IF Tail(deferred) # <<>> THEN "Deferred" ELSE "Done"
    /\ UNCHANGED <<file, environ, args, server, resolved, db, err, dbm, ret>>

Next ==
    \/ Resolve
    \/ SqlOpen
    \/ Ping
    \/ Provisioning
    \/ MasterOpen
    \/ CreateDB
    \/ Reopen
    \/ SchemaStep
    \/ Return
    \/ RunDeferred

Spec == Init /\ [][Next]_vars

\* ------------------------------------------------------------------------
\* Properties
\* ------------------------------------------------------------------------

\* the external calls made so far, by operation and by source line
Calls(op) == {i \in DOMAIN log : log[i].op = op}
At(line) == {i \in DOMAIN log : log[i].line = line}

\* OpenDBFromDBConf has left, by a return or by a panic
Done == pc = "Done"

\* the ping failed with an error other than "database does not exist"
PingFailedOtherwise == \E i \in Calls("Ping") : log[i].res \notin {"nil", "pq: 3D000"}

\* the ping reported that the database does not exist
PingFoundNoDatabase == \E i \in Calls("Ping") : log[i].res = "pq: 3D000"

\* the search path statements executed so far
SchemaCalls == {i \in Calls("Exec") : HasPrefix(log[i].arg, SetSearchPath)}

\* the CREATE DATABASE statements executed so far
CreateCalls == {i \in Calls("Exec") : HasPrefix(log[i].arg, CreateDatabase)}

\* the second open of the original open string failed
ReopenFailed == \E i \in At(136) : log[i].res # "nil"

\* C1: when the first open succeeds and the ping fails with an error other
\* than "database does not exist", open returns that error and no handle, and
\* has executed neither provisioning nor the schema statement.
C1_OtherPingFailureFails ==
    (Done /\ PingFailedOtherwise) =>
        /\ ret.kind = "return" /\ ret.db = NilDB /\ ret.err # "nil"
        /\ Calls("Println") = {} /\ Calls("Exec") = {}
        /\ Cardinality(Calls("Open")) = 1

\* C2: a handle returned with no error has passed a ping issued on that same
\* handle, and the schema statement when one was requested.
C2_ReturnedHandlePinged ==
    (Done /\ ret.kind = "return" /\ ret.err = "nil" /\ ret.db # NilDB) =>
        /\ \E i \in Calls("Ping") : log[i].h = ret.db /\ log[i].res = "nil"
        /\ (conf.Driver.Name = Postgres /\ conf.PgSchema # <<>>) =>
               \E i \in SchemaCalls : log[i].h = ret.db /\ log[i].res = "nil"

\* C3: after a successful provisioning, a failure to re-open the original
\* open string is returned as an error, with no handle.
C3_ReopenFailureReturned ==
    (Done /\ ReopenFailed) =>
        ret.kind = "return" /\ ret.db = NilDB /\ ret.err # "nil"

\* C7: open ends by returning a handle and no error, or no handle and an
\* error; never no handle with no error, never a panic.
C7_HandleOrError ==
    Done => /\ ret.kind = "return"
            /\ \/ ret.db # NilDB /\ ret.err = "nil"
               \/ ret.db = NilDB /\ ret.err # "nil"

\* the text s has a dbname= key followed by at least one non-space character
HasDbnameToken(s) ==
    \E i \in 1..Len(s) :
        /\ i + 7 <= Len(s)
        /\ SubSeq(s, i, i + 6) = DbnameKey
        /\ s[i + 7] # " "

\* the value of the first such token of s: the non-space characters after the key
FirstDbnameValue(s) ==
    LET i == Min({k \in 1..Len(s) :
                    k + 7 <= Len(s) /\ SubSeq(s, k, k + 6) = DbnameKey /\ s[k + 7] # " "})
        j == CHOOSE e \in (i + 7)..Len(s) :
                 /\ \A k \in (i + 7)..e : s[k] # " "
                 /\ e = Len(s) \/ s[e + 1] = " "
    IN SubSeq(s, i + 7, j)

\* provisioning ran to its end: master open, CREATE DATABASE and reopen succeeded
ProvisioningSucceeded ==
    /\ PingFoundNoDatabase
    /\ HasDbnameToken(conf.Driver.OpenStr)
    /\ \E i \in At(127) : log[i].res = "nil"
    /\ \E i \in CreateCalls : log[i].res = "nil"
    /\ \E i \in At(136) : log[i].res = "nil"

\* notice, master open on dbname=postgres, CREATE DATABASE <name>, reopen, in
\* this order right after the ping, and the re-opened handle returned
ProvisioningSequence ==
    /\ Len(log) >= 6
    /\ log[3].op = "Println"
    /\ log[4].op = "Open" /\ log[4].h # NilDB
    /\ HasDbnameToken(log[4].arg) /\ FirstDbnameValue(log[4].arg) = Postgres
    /\ log[5].op = "Exec" /\ log[5].h = log[4].h
    /\ log[5].arg = CreateDatabase \o FirstDbnameValue(conf.Driver.OpenStr)
    /\ log[6].op = "Open" /\ log[6].arg = conf.Driver.OpenStr
    /\ Cardinality(Calls("Println")) = 1
    /\ Cardinality(CreateCalls) = 1
    /\ Cardinality(Calls("Open")) = 3
    /\ ret = Returns(log[6].h, "nil") /\ log[6].h # NilDB

\* C4 (as stated): when the ping reports a missing database, a name can be
\* extracted and master open, CREATE DATABASE and reopen succeed, open prints
\* the notice, opens the master connection on dbname=postgres, creates the
\* database, re-opens the original string, in this order, and returns the
\* re-opened handle with no error.
C4_ProvisioningSequence ==
    (Done /\ ProvisioningSucceeded) => ProvisioningSequence

\* C4 (amended): the same, provided the schema statement, when one is
\* executed after the reopen, succeeds as well.
C4_ProvisioningSequenceSchemaOk ==
    (Done /\ ProvisioningSucceeded /\ \A i \in SchemaCalls : log[i].res = "nil")
        => ProvisioningSequence

C4_Witness ==
    /\ Done /\ ProvisioningSucceeded
    /\ \E i \in SchemaCalls : log[i].res = "nil"
    /\ ret.db = 3

\* C5: when open has left, by any exit path, every master connection that
\* was opened during the call is closed.
C5_MasterConnectionClosed ==
    Done => \A i \in At(127) : log[i].h # NilDB => handles[log[i].h].closed

C5_Witness ==
    /\ Done
    /\ \E i \in At(127) : log[i].h # NilDB /\ handles[log[i].h].closed
    /\ ret = Returns(NilDB, "exec error")

\* C6: with driver postgres and a non-empty PgSchema a successful open has
\* executed SET search_path TO <PgSchema> exactly once, on the handle it
\* returns (the re-opened one after provisioning); with an empty PgSchema or
\* another driver name the statement is never executed.
C6_SearchPathOnce ==
    /\ (/\ Done /\ ret.kind = "return" /\ ret.err = "nil"
        /\ conf.Driver.Name = Postgres /\ conf.PgSchema # <<>>) =>
           /\ Cardinality(SchemaCalls) = 1
           /\ \A i \in SchemaCalls :
                /\ log[i].h = ret.db /\ ret.db # NilDB
                /\ log[i].arg = SetSearchPath \o conf.PgSchema
                /\ log[i].res = "nil"
                /\ \A j \in At(136) : j < i /\ log[j].h = log[i].h
    /\ (conf.Driver.Name # Postgres \/ conf.PgSchema = <<>>) => SchemaCalls = {}

C6_Witness ==
    /\ Done /\ ret.kind = "return" /\ ret.err = "nil"
    /\ conf.PgSchema = TenantA
    /\ At(136) # {}
    /\ Cardinality(SchemaCalls) = 1

\* C8: when the ping reports a missing database and the open string has no
\* dbname= token with a value, open returns the "unknown name" error and no
\* handle; it opens no master connection, executes no CREATE DATABASE, does
\* not reopen and does not execute the schema statement.
C8_NoNameNoProvisioning ==
    (PingFoundNoDatabase /\ ~HasDbnameToken(conf.Driver.OpenStr)) =>
        /\ pc \in {"Provisioning", "Done"}
        /\ Cardinality(Calls("Open")) = 1
        /\ Calls("Exec") = {}
        /\ Done => ret = Returns(NilDB, "Can't create database with unknown name")

C8_Witness ==
    /\ Done /\ PingFoundNoDatabase
    /\ ~HasDbnameToken(conf.Driver.OpenStr)
    /\ \E i \in 1..(Len(conf.Driver.OpenStr) - 6) :
         SubSeq(conf.Driver.OpenStr, i, i + 6) = DbnameKey
    /\ ret.err = "Can't create database with unknown name"

\* no operation of open has been made more often than the code allows
AtMostOnce ==
    /\ Cardinality(Calls("Ping")) <= 1
    /\ Cardinality(At(127)) <= 1
    /\ Cardinality(CreateCalls) <= 1
    /\ Cardinality(At(136)) <= 1
    /\ Cardinality(Calls("Open")) <= 3
    /\ Cardinality(SchemaCalls) <= 1

\* the number of steps a call can still take from each position
Rank ==
    CASE pc = "Resolve" -> 11
      [] pc = "Unopened" -> 10
      [] pc = "Opened" -> 9
      [] pc = "Provisioning" -> 8
      [] pc = "MasterOpen" -> 7
      [] pc = "CreateDB" -> 6
      [] pc = "Reopen" -> 5
      [] pc = "SchemaStep" -> 4
      [] pc = "Return" -> 3
      [] pc = "Deferred" -> 1 + Len(deferred)
      [] OTHER -> 0

\* C9: every call ends (each step brings it closer to its end, so no step is
\* repeated), and at no time has it made more than one ping, one master open,
\* one CREATE DATABASE, one reopen (three opens in all) and one schema
\* statement.
C9_NoRetryAndTerminates ==
    /\ []AtMostOnce
    /\ [][Rank' < Rank /\ Rank' >= 0]_vars

C9_Witness ==
    /\ Done
    /\ Cardinality(Calls("Open")) = 3
    /\ Cardinality(Calls("Ping")) = 1
    /\ Cardinality(CreateCalls) = 1
    /\ Cardinality(SchemaCalls) = 1

\* the selected section names a driver unknown to the registry and overrides
\* neither the import nor the dialect
UnknownDriverNoOverride ==
    /\ file.readable
    /\ args.env \in DOMAIN file.envs
    /\ file.envs[args.env].driver.set
    /\ file.envs[args.env].open.set
    /\ ExpandEnv(environ, file.envs[args.env].driver.val) # Postgres
    /\ ~file.envs[args.env].import.set
    /\ ~file.envs[args.env].dialect.set

\* C10: a Configuration returned by NewDBConf has a non-empty import and a
\* non-nil dialect; a driver name unknown to the registry, with no import and
\* no dialect override, gives the validation error and no Configuration.
C10_ResolvedDriverValid ==
    /\ resolved.conf.ok =>
         /\ Len(resolved.conf.Driver.Import) > 0
         /\ resolved.conf.Driver.Dialect # "nil"
    /\ (pc # "Resolve" /\ UnknownDriverNoOverride) =>
         ~resolved.conf.ok /\ resolved.err = "Invalid DBConf"

C10_Witness ==
    /\ pc = "ResolveFailed"
    /\ UnknownDriverNoOverride
    /\ file.envs[args.env].driver.val = MySql
    /\ resolved.err = "Invalid DBConf"

\* the section selected by the call, when the file has it
Section == file.envs[args.env]

\* the file is readable and the selected section has the two required keys
RequiredKeys ==
    /\ file.readable
    /\ args.env \in DOMAIN file.envs
    /\ Section.driver.set
    /\ Section.open.set

\* the section names a driver unknown to the registry and overrides both its
\* import and its dialect
UnknownDriverBothOverrides ==
    /\ RequiredKeys
    /\ ExpandEnv(environ, Section.driver.val) # Postgres
    /\ Section.import.set
    /\ Section.dialect.set

\* resolution succeeded and the driver carries the import and the dialect of
\* the overrides
ResolvedWithOverrides ==
    /\ resolved.conf.ok /\ resolved.err = "nil"
    /\ resolved.conf.Driver.Import = Section.import.val
    /\ Section.dialect.val = Postgres => resolved.conf.Driver.Dialect = "PostgresDialect"
    /\ resolved.conf.Driver.Dialect # "nil"

\* C11 (as stated): for a driver name absent from the registry, a section
\* with the required keys and both an import and a dialect override makes
\* NewDBConf succeed, with the overriding import and dialect in the result.
C11_BothOverridesResolve ==
    (pc # "Resolve" /\ UnknownDriverBothOverrides) => ResolvedWithOverrides

\* C11 (amended): the same, provided the import override is not empty and
\* the dialect override names a known dialect.
C11_ValidOverridesResolve ==
    (/\ pc # "Resolve" /\ UnknownDriverBothOverrides
     /\ Section.import.val # <<>>
     /\ Section.dialect.val = Postgres) => ResolvedWithOverrides

C11_Witness ==
    /\ pc = "Unopened"
    /\ UnknownDriverBothOverrides
    /\ Section.driver.val = MySql
    /\ resolved.conf.Driver.Import = MyImport
    /\ resolved.conf.Driver.Dialect = "PostgresDialect"

\* C12: when the file cannot be read, or the selected environment has no
\* driver key or no open key (also when the file has no such environment),
\* NewDBConf returns the corresponding error and no Configuration, whatever
\* import or dialect override is present.
C12_ConfigErrors ==
    (pc # "Resolve" /\ ~RequiredKeys) =>
        /\ pc = "ResolveFailed"
        /\ ~resolved.conf.ok
        /\ resolved.conf = NoConf
        /\ ~file.readable => resolved.err = "ReadFile"
        /\ (file.readable /\ args.env \notin DOMAIN file.envs) => resolved.err = "no driver"
        /\ (file.readable /\ args.env \in DOMAIN file.envs) =>
              resolved.err = IF Section.driver.set THEN "no open" ELSE "no driver"

C12_Witness ==
    /\ pc = "ResolveFailed"
    /\ file.readable /\ args.env \in DOMAIN file.envs
    /\ Section.driver.val = MySql
    /\ ~Section.open.set
    /\ Section.import.val = MyImport
    /\ Section.dialect.val = Postgres
    /\ resolved.err = "no open"

\* the driver and open values of the section after environment expansion
ExpandedDriver == ExpandEnv(environ, Section.driver.val)
ExpandedOpen == ExpandEnv(environ, Section.open.val)

\* C13 (as stated): the open string of a resolved Configuration is the
\* expanded open value, replaced by the DSN of pq.ParseURL when the expanded
\* driver name is postgres and the value parses as a URL; a value that does
\* not parse never makes NewDBConf fail.
C13_OpenStringDerivation ==
    /\ resolved.conf.ok =>
         resolved.conf.Driver.OpenStr =
             IF ExpandedDriver = Postgres /\ ParseURL(ExpandedOpen).ok
             THEN ParseURL(ExpandedOpen).dsn
             ELSE ExpandedOpen
    /\ (pc # "Resolve" /\ RequiredKeys) => resolved.err \in {"nil", "Invalid DBConf"}

\* C13 (amended): the same, the value being replaced only when the DSN that
\* pq.ParseURL returns is not empty.
C13_OpenStringDerivationNonEmpty ==
    /\ resolved.conf.ok =>
         /\ resolved.conf.Driver.OpenStr =
                IF /\ ExpandedDriver = Postgres
                   /\ ParseURL(ExpandedOpen).ok
                   /\ ParseURL(ExpandedOpen).dsn # <<>>
                THEN ParseURL(ExpandedOpen).dsn
                ELSE ExpandedOpen
         /\ (VarV \notin DOMAIN environ /\ Section.open.val = <<"$", "{", "V", "}">>)
                => resolved.conf.Driver.OpenStr = <<>>
    /\ (pc # "Resolve" /\ RequiredKeys) => resolved.err \in {"nil", "Invalid DBConf"}
    /\ (pc # "Resolve" /\ RequiredKeys /\ ExpandedDriver = Postgres
          /\ ~Section.import.set /\ ~Section.dialect.set) => resolved.conf.ok

C13_Witness ==
    /\ resolved.conf.ok
    /\ Section.open.val = PostgresScheme \o <<"h", "/", "a">>
    /\ resolved.conf.Driver.Name = Postgres
    /\ resolved.conf.Driver.OpenStr = DbnameKey \o <<"a", " ">> \o HostKey \o <<"h">>

\* the provisioning calls made so far: notice, master open, CREATE DATABASE,
\* reopen
ProvisioningCalls == Calls("Println") \cup At(127) \cup CreateCalls \cup At(136)

\* C15 (as stated): the provisioning calls are made only after a ping that
\* reported a missing database, and only for the driver name postgres.
C15_ProvisioningOnlyForPostgres ==
    \A i \in ProvisioningCalls :
        /\ \E j \in Calls("Ping") : j < i /\ log[j].res = "pq: 3D000"
        /\ conf.Driver.Name = Postgres

\* C15 (amended): the provisioning calls are made only after a ping that
\* failed with the pq error code 3D000, whatever the driver name; after a
\* ping that succeeded or failed otherwise none of them is made.
C15_ProvisioningOnlyAfterMissing ==
    /\ \A i \in ProvisioningCalls :
         \E j \in Calls("Ping") : j < i /\ log[j].res = "pq: 3D000"
    /\ (\E j \in Calls("Ping") : log[j].res # "pq: 3D000") => ProvisioningCalls = {}

C15_Witness ==
    /\ Done
    /\ conf.Driver.Name = MySql
    /\ Cardinality(ProvisioningCalls) = 4

\* the handles of the master connections opened so far
MasterHandles == {log[j].h : j \in {k \in At(127) : log[k].h # NilDB}}

\* C16 (as stated): the master connection is already closed when the
\* original open string is re-opened, so it is never open together with the
\* re-opened connection.
C16_MasterClosedBeforeReopen ==
    At(136) # {} => \A h \in MasterHandles : handles[h].closed

\* C16 (amended): the master connection is closed by the deferred call when
\* open leaves, as its last call; until then, and so during the reopen and
\* the schema statement, it is open.
C16_MasterClosedAtExit ==
    /\ \A h \in MasterHandles : handles[h].closed <=> Done
    /\ \A i \in Calls("Close") : i = Len(log) /\ log[i].h \in MasterHandles
    /\ Cardinality(Calls("Close")) <= 1

C16_Witness ==
    /\ pc = "SchemaStep"
    /\ \E i \in At(136) : log[i].h # NilDB /\ ~handles[log[i].h].closed
    /\ \E h \in MasterHandles : ~handles[h].closed

\* a dbname= key with a value starts at position i of s
TokenAt(s, i) ==
    /\ i + 7 <= Len(s)
    /\ SubSeq(s, i, i + 6) = DbnameKey
    /\ s[i + 7] # " "

\* position p of s lies within a token that starts before p, one of starts
InToken(s, p, starts) ==
    \E j \in starts : j < p /\ \A k \in j..p : s[k] # " "

\* the tokens of s, left to right: a key inside the value of an earlier token
\* belongs to that token
TokenStarts(s) == {i \in 1..Len(s) : TokenAt(s, i) /\ ~InToken(s, i, {j \in 1..Len(s) : TokenAt(s, j)})}

\* s with the tokens that start in starts replaced by dbname=postgres, in
\* the same position, every other character kept
WithTokensReplaced(s, starts) ==
    Concat([p \in 1..Len(s) |->
               IF p \in starts THEN DbnamePostgres
               ELSE IF InToken(s, p, starts) THEN <<>>
               ELSE <<s[p]>>])

\* the name in CREATE DATABASE is the value of the first token
CreatesFirstToken ==
    \A i \in CreateCalls :
        log[i].arg = CreateDatabase \o FirstDbnameValue(conf.Driver.OpenStr)

\* C17 (as stated): the master connection string is the open string with
\* only the token the name was extracted from (the first) replaced by
\* dbname=postgres, and the name created is the value of that token.
C17_OnlyExtractedTokenReplaced ==
    /\ \A i \in At(127) :
         log[i].arg = WithTokensReplaced(conf.Driver.OpenStr,
                                         {Min(TokenStarts(conf.Driver.OpenStr))})
    /\ CreatesFirstToken

\* C17 (amended): the master connection string is the open string with every
\* dbname= token replaced by dbname=postgres, and the name created is the
\* value of the first token.
C17_EveryTokenReplaced ==
    /\ \A i \in At(127) :
         log[i].arg = WithTokensReplaced(conf.Driver.OpenStr,
                                         TokenStarts(conf.Driver.OpenStr))
    /\ CreatesFirstToken

C17_Witness ==
    /\ CreateCalls # {}
    /\ Cardinality(TokenStarts(conf.Driver.OpenStr)) = 2
    /\ \E i \in At(127) :
         log[i].arg = DbnamePostgres \o <<" ">> \o DbnamePostgres

\* C19: when open has left, the only handle opened during the call that is
\* still open is the one returned to the caller; after an error or a panic
\* none is.
C19_NoHandleLeak ==
    Done => \A h \in DOMAIN handles :
                ~handles[h].closed =>
                    ret.kind = "return" /\ ret.err = "nil" /\ ret.db = h

\* ------------------------------------------------------------------------
\* Concurrent calls of OpenDBFromDBConf against one server.  Each caller has
\* its own pc, db, err, dbm, deferred, log and ret; the server and its set of
\* databases are shared.  The server decides every outcome: the ping reports
\* 3D000 until the database exists, CREATE DATABASE fails for a database that
\* exists, every other call succeeds.
\* ------------------------------------------------------------------------

Callers == 1..NumCallers

\* dbconf.yml of the concurrent callers: driver postgres, open "dbname=a"
ConcFile ==
    [readable |-> TRUE,
     envs |-> [e \in {"development"} |->
                 [driver |-> Given(Postgres), open |-> Given(DbnameKey \o <<"a">>),
                  import |-> Absent, dialect |-> Absent]]]

\* result of db.Ping() on the server: the database of the open string exists or not
ServerPing == IF dbname \in server THEN "nil" ELSE "pq: 3D000"

\* result of CREATE DATABASE on the server: an existing database is an error
ServerCreate == IF dbname \in server THEN "pq: 42P04" ELSE "nil"

CLeave(c) == IF deferred[c] # <<>> THEN "Deferred" ELSE "Done"

ConcInit ==
    /\ file = ConcFile
    /\ environ \in Environs
    /\ args \in [p : {"db"}, env : {"development"}, pgschema : {<<>>, TenantA}]
    /\ resolved = NewDBConf(file, environ, args)
    /\ server \in {{}, {<<"a">>}}
    /\ pc = [c \in Callers |-> "Unopened"]
    /\ db = [c \in Callers |-> NilDB]
    /\ err = [c \in Callers |-> "nil"]
    /\ dbm = [c \in Callers |-> NilDB]
    /\ deferred = [c \in Callers |-> <<>>]
    /\ handles = <<>>
    /\ log = [c \in Callers |-> <<>>]
    /\ ret = [c \in Callers |-> NotReturned]

\* lines 115-118
CSqlOpen(c) ==
    /\ pc[c] = "Unopened"
    /\ handles' = Append(handles, [dsn |-> conf.Driver.OpenStr, closed |-> FALSE])
    /\ db' = [db EXCEPT ![c] = Len(handles) + 1]
    /\ log' = [log EXCEPT ![c] =
                 Append(@, Event(115, "Open", Len(handles) + 1, conf.Driver.OpenStr, "nil"))]
    /\ err' = [err EXCEPT ![c] = "nil"]
    /\ pc' = [pc EXCEPT ![c] = "Opened"]
    /\ UNCHANGED <<file, environ, args, server, resolved, dbm, deferred, ret>>

\* lines 119-121
CPing(c) ==
    /\ pc[c] = "Opened"
    /\ err' = [err EXCEPT ![c] = ServerPing]
    /\ log' = [log EXCEPT ![c] = Append(@, Event(119, "Ping", db[c], <<>>, ServerPing))]
    /\ pc' = [pc EXCEPT ![c] = AfterPing(ServerPing)]
    /\ UNCHANGED <<file, environ, args, server, resolved, db, dbm, deferred, handles, ret>>

\* lines 122-125 and 137-139
CProvisioning(c) ==
    /\ pc[c] = "Provisioning"
    /\ log' = [log EXCEPT ![c] = Append(@, Event(122, "Println", NilDB, <<>>, "nil"))]
    /\ IF NameFound
       THEN pc' = [pc EXCEPT ![c] = "MasterOpen"] /\ ret' = ret
       ELSE /\ ret' = [ret EXCEPT
                          ![c] = Returns(NilDB, "Can't create database with unknown name")]
            /\ pc' = [pc EXCEPT ![c] = CLeave(c)]
    /\ UNCHANGED <<file, environ, args, server, resolved, db, err, dbm, deferred, handles>>

\* lines 126-131
CMasterOpen(c) ==
    /\ pc[c] = "MasterOpen"
    /\ handles' = Append(handles, [dsn |-> masterConnection, closed |-> FALSE])
    /\ dbm' = [dbm EXCEPT ![c] = Len(handles) + 1]
    /\ deferred' = [deferred EXCEPT ![c] = <<Len(handles) + 1>>]
    /\ log' = [log EXCEPT ![c] =
                 Append(@, Event(127, "Open", Len(handles) + 1, masterConnection, "nil"))]
    /\ pc' = [pc EXCEPT ![c] = "CreateDB"]
    /\ UNCHANGED <<file, environ, args, server, resolved, db, err, ret>>

\* lines 132-134
CCreateDB(c) ==
    /\ pc[c] = "CreateDB"
    /\ log' = [log EXCEPT ![c] =
                 Append(@, Event(132, "Exec", dbm[c], CreateDatabase \o dbname, ServerCreate))]
    /\ IF ServerCreate = "nil"
       THEN /\ server' = server \cup {dbname}
            /\ pc' = [pc EXCEPT ![c] = "Reopen"]
            /\ ret' = ret
       ELSE /\ server' = server
            /\ ret' = [ret EXCEPT ![c] = Returns(NilDB, ServerCreate)]
            /\ pc' = [pc EXCEPT ![c] = CLeave(c)]
    /\ UNCHANGED <<file, environ, args, resolved, db, err, dbm, deferred, handles>>

\* line 136
CReopen(c) ==
    /\ pc[c] = "Reopen"
    /\ handles' = Append(handles, [dsn |-> conf.Driver.OpenStr, closed |-> FALSE])
    /\ db' = [db EXCEPT ![c] = Len(handles) + 1]
    /\ log' = [log EXCEPT ![c] =
                 Append(@, Event(136, "Open", Len(handles) + 1, conf.Driver.OpenStr, "nil"))]
    /\ pc' = [pc EXCEPT ![c] = SchemaPc]
    /\ UNCHANGED <<file, environ, args, server, resolved, err, dbm, deferred, ret>>

\* lines 144-148
CSchemaStep(c) ==
    /\ pc[c] = "SchemaStep"
    /\ IF db[c] = NilDB
       THEN /\ ret' = [ret EXCEPT ![c] = Panics]
            /\ pc' = [pc EXCEPT ![c] = CLeave(c)]
            /\ log' = log
       ELSE /\ log' = [log EXCEPT ![c] =
                         Append(@, Event(145, "Exec", db[c], SetSearchPath \o conf.PgSchema, "nil"))]
            /\ pc' = [pc EXCEPT ![c] = "Return"]
            /\ ret' = ret
    /\ UNCHANGED <<file, environ, args, server, resolved, db, err, dbm, deferred, handles>>

\* line 150
CReturn(c) ==
    /\ pc[c] = "Return"
    /\ ret' = [ret EXCEPT ![c] = Returns(db[c], "nil")]
    /\ pc' = [pc EXCEPT ![c] = CLeave(c)]
    /\ UNCHANGED <<file, environ, args, server, resolved, db, err, dbm, deferred, handles, log>>

\* line 131, when the function leaves
CRunDeferred(c) ==
    /\ pc[c] = "Deferred"
    /\ handles' = [handles EXCEPT ![Head(deferred[c])].closed = TRUE]
    /\ log' = [log EXCEPT ![c] = Append(@, Event(131, "Close", Head(deferred[c]), <<>>, "nil"))]
    /\ deferred' = [deferred EXCEPT ![c] = Tail(@)]
    /\ pc' = [pc EXCEPT ![c] = IF Tail(deferred[c]) # <<>> THEN "Deferred" ELSE "Done"]
    /\ UNCHANGED <<file, environ, args, server, resolved, db, err, dbm, ret>>

ConcNext ==
    \E c \in Callers :
        \/ CSqlOpen(c)
        \/ CPing(c)
        \/ CProvisioning(c)
        \/ CMasterOpen(c)
        \/ CCreateDB(c)
        \/ CReopen(c)
        \/ CSchemaStep(c)
        \/ CReturn(c)
        \/ CRunDeferred(c)

ConcSpec == ConcInit /\ [][ConcNext]_vars

\* every caller has left OpenDBFromDBConf
AllDone == \A c \in Callers : pc[c] = "Done"

\* C18: concurrent calls for the same database that does not exist yet end
\* as they do one after the other, where the first call creates the database
\* and every call returns a ready connection and no error.
C18_ConcurrentAsSequential ==
    AllDone => \A c \in Callers :
                   ret[c].kind = "return" /\ ret[c].err = "nil" /\ ret[c].db # NilDB

====
